---------------------------- MODULE Spec2Model ----------------------------
(***************************************************************************)
(* A model of the weekly planner's storage layer (src/data_manager.py,     *)
(* class DataManager) and of the GUI handlers that call it                 *)
(* (src/ui_planner.py, class WeeklyPlannerApp).                            *)
(*                                                                         *)
(* Text values that the code only stores and returns are TLA+ strings.     *)
(* Text values the code compares or trims (date, time, name) are sequences *)
(* of characters, so that SQLite's lexical comparison and Python's strip() *)
(* are computed, not assumed.  Date and time characters are digit codes    *)
(* (integers); name characters are one-character strings.                  *)
(***************************************************************************)
EXTENDS Integers, Sequences, FiniteSets, TLC

(***************************************************************************)
(* Bounds of the model.                                                    *)
(***************************************************************************)
\* how many task ids the tasks table's AUTOINCREMENT sequence may hand out
MaxTasks == 2
\* how many schedule ids the schedule table's sequence may hand out
MaxSchedule == 2
\* how many low-level sqlite3 errors the environment may inject
MaxFaults == 1

(***************************************************************************)
(* Input domains.                                                          *)
(***************************************************************************)
\* dates a caller stores tasks under ("10", "15": the day part of YYYY-MM-DD)
Dates == { <<1, 0>>, <<1, 5>> }
\* range ends a caller queries with
QueryDates == Dates \cup { <<0, 9>>, <<1, 2>> }
\* ids a caller passes: every id the sequence may hand out, and one it never does
TaskIds == 1 .. (MaxTasks + 1)
\* the (start, end) ranges the get_tasks_for_week calls are made with
Weeks == { << <<0, 9>>, <<1, 5>> >>, << <<1, 2>>, <<1, 5>> >> }
\* outcomes of one write: no error, sqlite3.Error raised by execute(), or
\* by commit() with the transaction left open (SQLITE_BUSY) or rolled back
\* by SQLite itself (SQLITE_FULL, SQLITE_IOERR)
Faults == { "none", "execute", "commit_busy", "commit_rollback" }
DaysOfWeek == { "Monday", "Tuesday" }

\* ranges that select, of the tasks of Dates, none, either date's, or both
QueryRanges ==
    Weeks \cup { << d, d >> : d \in Dates } \cup { << <<0, 9>>, <<0, 9>> >> }

\* a file path: a directory and a file name; the empty string is NoPath
NoPath == [dir |-> "", name |-> <<>>]

\* a file of the user's
UserFile == [dir |-> "/tmp", name |-> <<"a", ".", "p">>]

\* a file of the user's whose name is a leading dot and no extension
DotFile == [dir |-> "/tmp", name |-> <<".", "p">>]

\* a path at which no file exists
MissingFile == [dir |-> "/tmp", name |-> <<"m", ".", "p">>]

\* the files that exist when the application starts
UserFiles == [p \in {UserFile, DotFile} |->
                IF p = UserFile THEN "content" ELSE "dotcontent"]

\* the argument tuples (name, description, time, location, file_path) the
\* direct callers of add_task and update_task use
TaskArgs ==
    { [name |-> <<"a">>, description |-> <<>>, time |-> <<>>,
       location |-> <<>>, file_path |-> NoPath],
      [name |-> <<"b">>, description |-> <<"d">>, time |-> <<1, 2>>,
       location |-> <<"l">>, file_path |-> UserFile],
      [name |-> <<>>, description |-> <<"d">>, time |-> <<2>>,
       location |-> <<>>, file_path |-> NoPath] }

\* the argument tuples (day_of_week, start_time, end_time, type,
\* description) the callers of add_schedule_entry use
ScheduleArgs ==
    { [day_of_week |-> "Monday", start_time |-> <<0, 9>>,
       end_time |-> <<0, 8>>, type |-> "Work", description |-> <<>>] }

(***************************************************************************)
(* State.                                                                  *)
(*   conn   "open" or "none": DataManager.conn (None when unavailable)     *)
(*   db     what the connection sees: both tables and their AUTOINCREMENT  *)
(*          sequences, the changes of an open transaction included         *)
(*   disk   the committed content of the database file                     *)
(*   fs     the files that exist, each with its content                    *)
(*   last   the last call made on the DataManager: operation, arguments,   *)
(*          returned value, whether an exception left the method (and, for *)
(*          close, whether it printed "Database connection closed.")       *)
(*   faults the number of low-level errors injected so far                 *)
(***************************************************************************)
VARIABLES conn, db, disk, fs, last, faults

vars == <<conn, db, disk, fs, last, faults>>

(***************************************************************************)
(* Python and SQLite value conversions.                                    *)
(***************************************************************************)
\* sqlite3 adapts a Python bool to INTEGER 1 / 0
BoolToInt(b) == IF b THEN 1 ELSE 0

\* Python truth of a stored INTEGER
IntToBool(n) == n # 0

\* Optional results: None is the empty set, a value v is {v}
None == {}

Some(v) == {v}

RECURSIVE StrLess(_, _)
\* SQLite BINARY collation on TEXT: memcmp, a proper prefix sorts first
StrLess(a, b) ==
    IF b = <<>> THEN FALSE
    ELSE IF a = <<>> THEN TRUE
    ELSE IF Head(a) # Head(b) THEN Head(a) < Head(b)
    ELSE StrLess(Tail(a), Tail(b))

StrLeq(a, b) == a = b \/ StrLess(a, b)

(***************************************************************************)
(* The SQL statements.                                                     *)
(***************************************************************************)
EmptyDb == [tasks |-> {}, schedule |-> {}, task_seq |-> 0, sched_seq |-> 0]

\* InsertTask with the description and location values bound to each
\* other's column
InsertTask_swapped(d, date, a) ==
    [d EXCEPT !.task_seq = d.task_seq + 1,
              !.tasks = d.tasks \cup
                 { [id |-> d.task_seq + 1, date |-> date, name |-> a.name,
                    description |-> a.location, time |-> a.time,
                    location |-> a.description, file_path |-> a.file_path,
                    is_completed |-> BoolToInt(FALSE)] }]

\* the largest of a set of ids, 0 for the empty set
MaxId(ids) == IF ids = {} THEN 0 ELSE CHOOSE i \in ids : \A j \in ids : j <= i

\* InsertTask on a table whose id is INTEGER PRIMARY KEY without
\* AUTOINCREMENT: the new id is one more than the largest id stored
InsertTask_rowid(d, date, a) ==
    [d EXCEPT !.task_seq = MaxId({ r.id : r \in d.tasks }) + 1,
              !.tasks = d.tasks \cup
                 { [id |-> MaxId({ r.id : r \in d.tasks }) + 1,
                    date |-> date, name |-> a.name,
                    description |-> a.description, time |-> a.time,
                    location |-> a.location, file_path |-> a.file_path,
                    is_completed |-> BoolToInt(FALSE)] }]

\* INSERT INTO tasks (...) VALUES (?, ?, ?, ?, ?, ?, ?) with is_completed
\* False; id INTEGER PRIMARY KEY AUTOINCREMENT
InsertTask(d, date, a) ==
    [d EXCEPT !.task_seq = d.task_seq + 1,
              !.tasks = d.tasks \cup
                 { [id |-> d.task_seq + 1, date |-> date, name |-> a.name,
                    description |-> a.description, time |-> a.time,
                    location |-> a.location, file_path |-> a.file_path,
                    is_completed |-> BoolToInt(FALSE)] }]

\* UpdateStatus without its WHERE clause
UpdateStatus_nowhere(d, task_id, is_completed) ==
    [d EXCEPT !.tasks =
        { [r EXCEPT !.is_completed = BoolToInt(is_completed)] : r \in d.tasks }]

\* UPDATE tasks SET is_completed = ? WHERE id = ?
UpdateStatus(d, task_id, is_completed) ==
    [d EXCEPT !.tasks =
        { IF r.id = task_id
            THEN [r EXCEPT !.is_completed = BoolToInt(is_completed)]
            ELSE r : r \in d.tasks }]

\* UpdateTask with the location column left out of the SET list
UpdateTask_nolocation(d, task_id, a) ==
    [d EXCEPT !.tasks =
        { IF r.id = task_id
            THEN [r EXCEPT !.name = a.name, !.description = a.description,
                           !.time = a.time, !.file_path = a.file_path]
            ELSE r : r \in d.tasks }]

\* UpdateTask without its WHERE clause
UpdateTask_nowhere(d, task_id, a) ==
    [d EXCEPT !.tasks =
        { [r EXCEPT !.name = a.name, !.description = a.description,
                    !.time = a.time, !.location = a.location,
                    !.file_path = a.file_path] : r \in d.tasks }]

\* UpdateTask with the time value bound to the date column
UpdateTask_date(d, task_id, a) ==
    [d EXCEPT !.tasks =
        { IF r.id = task_id
            THEN [r EXCEPT !.name = a.name, !.description = a.description,
                           !.date = a.time, !.location = a.location,
                           !.file_path = a.file_path]
            ELSE r : r \in d.tasks }]

\* UPDATE tasks SET name = ?, description = ?, time = ?, location = ?,
\* file_path = ? WHERE id = ?
UpdateTask(d, task_id, a) ==
    [d EXCEPT !.tasks =
        { IF r.id = task_id
            THEN [r EXCEPT !.name = a.name, !.description = a.description,
                           !.time = a.time, !.location = a.location,
                           !.file_path = a.file_path]
            ELSE r : r \in d.tasks }]

\* DeleteTask without its WHERE clause
DeleteTask_nowhere(d, task_id) == [d EXCEPT !.tasks = {}]

\* DELETE FROM tasks WHERE id = ?
DeleteTask(d, task_id) ==
    [d EXCEPT !.tasks = { r \in d.tasks : r.id # task_id }]

\* WHERE date BETWEEN ? AND ?
SelectWeek(d, start, end) ==
    { r \in d.tasks : StrLeq(start, r.date) /\ StrLeq(r.date, end) }

\* ORDER BY date alone
OrderKeyLeq_dateonly(r1, r2) == StrLeq(r1.date, r2.date)

\* ORDER BY date, time: the key comparison
OrderKeyLeq(r1, r2) ==
    \/ StrLess(r1.date, r2.date)
    \/ r1.date = r2.date /\ StrLeq(r1.time, r2.time)

RECURSIVE OrderByDateTime(_)
\* every sequence ORDER BY date, time may list a set of rows in: a row with
\* a least key comes first (SQL does not specify the order of rows with
\* equal keys)
OrderByDateTime(rows) ==
    IF rows = {} THEN { <<>> }
    ELSE UNION { { <<r>> \o sq : sq \in OrderByDateTime(rows \ {r}) } :
                 r \in { x \in rows : \A y \in rows : OrderKeyLeq(x, y) } }

\* tasks_by_date.setdefault(task_data['date'], []).append(task_data)
GroupByDate(sq) ==
    [dt \in { sq[i].date : i \in DOMAIN sq } |->
        SelectSeq(sq, LAMBDA r : r.date = dt)]

\* the mappings the SELECT of get_tasks_for_week can produce
WeekResults(d, start, end) ==
    { GroupByDate(sq) : sq \in OrderByDateTime(SelectWeek(d, start, end)) }

\* INSERT INTO schedule (...) VALUES (?, ?, ?, ?, ?)
InsertSchedule(d, a) ==
    [d EXCEPT !.sched_seq = d.sched_seq + 1,
              !.schedule = d.schedule \cup
                 { [id |-> d.sched_seq + 1, day_of_week |-> a.day_of_week,
                    start_time |-> a.start_time, end_time |-> a.end_time,
                    type |-> a.type, description |-> a.description] }]

\* ORDER BY end_time in the place of ORDER BY start_time
StartTimeLeq_end(r1, r2) == StrLeq(r1.end_time, r2.end_time)

\* ORDER BY start_time: the key comparison
StartTimeLeq(r1, r2) == StrLeq(r1.start_time, r2.start_time)

RECURSIVE OrderByStartTime(_)
\* every sequence ORDER BY start_time may list a set of rows in
OrderByStartTime(rows) ==
    IF rows = {} THEN { <<>> }
    ELSE UNION { { <<r>> \o sq : sq \in OrderByStartTime(rows \ {r}) } :
                 r \in { x \in rows : \A y \in rows : StartTimeLeq(x, y) } }

\* the lists the SELECT of get_schedule_for_day can produce
DayResults(d, day_of_week) ==
    OrderByStartTime({ r \in d.schedule : r.day_of_week = day_of_week })

(***************************************************************************)
(* A DataManager is dm = [conn, db, disk].  Every method is an operator    *)
(* from dm and the arguments to the DataManager after the call and the     *)
(* value returned, so that the GUI handlers can call it; the action of     *)
(* the same name in lower case is a client's call of the method.           *)
(*                                                                         *)
(* A write on an open connection is execute(), then commit(); changed is   *)
(* the connection's view after execute().                                  *)
(***************************************************************************)
\* the connection's view after the call
AfterWrite(dm, changed, fault) ==
    CASE fault = "none" -> changed
      [] fault = "execute" -> dm.db
      [] fault = "commit_busy" -> changed
      [] fault = "commit_rollback" -> dm.disk

\* the committed content after the call
DiskAfterWrite(dm, changed, fault) ==
    IF fault = "none" THEN changed ELSE dm.disk

\* try: execute(sql); commit() except sqlite3.Error: print(...)
Write(dm, changed, fault) ==
    [dm EXCEPT !.db = AfterWrite(dm, changed, fault),
               !.disk = DiskAfterWrite(dm, changed, fault)]

FaultAllowed(fault) == fault = "none" \/ faults < MaxFaults

CountFault(fault) == IF fault = "none" THEN faults ELSE faults + 1

\* the guard left out
Unavailable_never(c) == FALSE

\* "if self.conn is None: return ..."
Unavailable(c) == c = "none"

(***************************************************************************)
(* DataManager methods.                                                    *)
(***************************************************************************)
AddTask(dm, date, a, fault) ==
    IF Unavailable(dm.conn)
      THEN [dm |-> dm, ret |-> None]
      ELSE [dm |-> Write(dm, InsertTask(dm.db, date, a), fault),
            ret |-> IF fault = "none"
                      THEN Some(InsertTask(dm.db, date, a).task_seq)
                      ELSE None]

\* the mappings get_tasks_for_week(start, end) can return
GetTasksForWeek(dm, start, end, fault) ==
    IF Unavailable(dm.conn) \/ fault # "none"
      THEN { <<>> }
      ELSE WeekResults(dm.db, start, end)

UpdateTaskStatusCall(dm, task_id, is_completed, fault) ==
    IF Unavailable(dm.conn)
      THEN dm
      ELSE Write(dm, UpdateStatus(dm.db, task_id, is_completed), fault)

UpdateTaskCall(dm, task_id, a, fault) ==
    IF Unavailable(dm.conn)
      THEN dm
      ELSE Write(dm, UpdateTask(dm.db, task_id, a), fault)

DeleteTaskCall(dm, task_id, fault) ==
    IF Unavailable(dm.conn)
      THEN dm
      ELSE Write(dm, DeleteTask(dm.db, task_id), fault)

AddScheduleEntry(dm, a, fault) ==
    IF Unavailable(dm.conn)
      THEN [dm |-> dm, ret |-> None]
      ELSE [dm |-> Write(dm, InsertSchedule(dm.db, a), fault),
            ret |-> IF fault = "none"
                      THEN Some(InsertSchedule(dm.db, a).sched_seq)
                      ELSE None]

\* the lists get_schedule_for_day(day_of_week) can return
GetScheduleForDay(dm, day_of_week, fault) ==
    IF Unavailable(dm.conn) \/ fault # "none"
      THEN { <<>> }
      ELSE DayResults(dm.db, day_of_week)

\* close() without "if self.conn": None.close() raises AttributeError
Close_noguard(dm) ==
    IF dm.conn = "open"
      THEN [dm |-> [dm EXCEPT !.conn = "none", !.db = dm.disk],
            printed |-> TRUE, raised |-> FALSE]
      ELSE [dm |-> dm, printed |-> FALSE, raised |-> TRUE]

\* "if self.conn: self.conn.close(); self.conn = None; print(...)": closing
\* the connection rolls an open transaction back
Close(dm) ==
    IF dm.conn = "open"
      THEN [dm |-> [dm EXCEPT !.conn = "none", !.db = dm.disk],
            printed |-> TRUE, raised |-> FALSE]
      ELSE [dm |-> dm, printed |-> FALSE, raised |-> FALSE]

(***************************************************************************)
(* A client's calls of the DataManager methods.                            *)
(***************************************************************************)
\* the DataManager of the current state
Self == [conn |-> conn, db |-> db, disk |-> disk]

\* the DataManager becomes dm
Becomes(dm) == conn' = dm.conn /\ db' = dm.db /\ disk' = dm.disk

\* a fault is injected only into a call that reaches execute()
Injected(fault) ==
    /\ FaultAllowed(fault)
    /\ Unavailable(conn) => fault = "none"
    /\ faults' = CountFault(fault)

add_task(date, a, fault) ==
    /\ Injected(fault)
    /\ Unavailable(conn) \/ db.task_seq < MaxTasks
    /\ Becomes(AddTask(Self, date, a, fault).dm)
    /\ last' = [op |-> "add_task", date |-> date, args |-> a,
                ret |-> AddTask(Self, date, a, fault).ret, raised |-> FALSE]
    /\ UNCHANGED fs

get_tasks_for_week(start, end, fault) ==
    /\ fault \in {"none", "execute"}
    /\ Injected(fault)
    /\ \E res \in GetTasksForWeek(Self, start, end, fault) :
          last' = [op |-> "get_tasks_for_week", start |-> start,
                   end |-> end, ret |-> res, raised |-> FALSE]
    /\ UNCHANGED <<conn, db, disk, fs>>

update_task_status(task_id, is_completed, fault) ==
    /\ Injected(fault)
    /\ Becomes(UpdateTaskStatusCall(Self, task_id, is_completed, fault))
    /\ last' = [op |-> "update_task_status", id |-> task_id,
                is_completed |-> is_completed, raised |-> FALSE]
    /\ UNCHANGED fs

update_task(task_id, a, fault) ==
    /\ Injected(fault)
    /\ Becomes(UpdateTaskCall(Self, task_id, a, fault))
    /\ last' = [op |-> "update_task", id |-> task_id, args |-> a,
                raised |-> FALSE]
    /\ UNCHANGED fs

\* delete_task that also removes the files the deleted row points to
delete_task_cascade(task_id, fault) ==
    /\ Injected(fault)
    /\ Becomes(DeleteTaskCall(Self, task_id, fault))
    /\ last' = [op |-> "delete_task", id |-> task_id, raised |-> FALSE]
    /\ fs' = [p \in DOMAIN fs \
                 { r.file_path : r \in { x \in db.tasks : x.id = task_id } }
               |-> fs[p]]

delete_task(task_id, fault) ==
    /\ Injected(fault)
    /\ Becomes(DeleteTaskCall(Self, task_id, fault))
    /\ last' = [op |-> "delete_task", id |-> task_id, raised |-> FALSE]
    /\ UNCHANGED fs

add_schedule_entry(a, fault) ==
    /\ Injected(fault)
    /\ Unavailable(conn) \/ db.sched_seq < MaxSchedule
    /\ Becomes(AddScheduleEntry(Self, a, fault).dm)
    /\ last' = [op |-> "add_schedule_entry", args |-> a,
                ret |-> AddScheduleEntry(Self, a, fault).ret,
                raised |-> FALSE]
    /\ UNCHANGED fs

get_schedule_for_day(day_of_week, fault) ==
    /\ fault \in {"none", "execute"}
    /\ Injected(fault)
    /\ \E res \in GetScheduleForDay(Self, day_of_week, fault) :
          last' = [op |-> "get_schedule_for_day", day_of_week |-> day_of_week,
                   ret |-> res, raised |-> FALSE]
    /\ UNCHANGED <<conn, db, disk, fs>>

close ==
    /\ Becomes(Close(Self).dm)
    /\ last' = [op |-> "close", printed |-> Close(Self).printed,
                raised |-> Close(Self).raised]
    /\ UNCHANGED <<faults, fs>>

(***************************************************************************)
(* DataManager.upload_file and the text conversions it and the GUI use.    *)
(***************************************************************************)
\* the characters str.strip() removes
Whitespace == { " ", "\t", "\n" }

RECURSIVE LStrip(_)
LStrip(s) ==
    IF s # <<>> /\ Head(s) \in Whitespace THEN LStrip(Tail(s)) ELSE s

RECURSIVE RStrip(_)
RStrip(s) ==
    IF s # <<>> /\ s[Len(s)] \in Whitespace
      THEN RStrip(SubSeq(s, 1, Len(s) - 1)) ELSE s

\* str.strip()
Strip(s) == RStrip(LStrip(s))

\* the character ":" of a time text; it sorts after every digit
Colon == 10

\* QTime.toString("HH:mm")
ToHHmm(t) == << t.h \div 10, t.h % 10, Colon, t.m \div 10, t.m % 10 >>

\* the decimal digits
Digit(n) == << "0", "1", "2", "3", "4", "5", "6", "7", "8", "9" >>[n + 1]

RECURSIVE IntToStr(_)
\* str(n) of an integer, as in f"{base}_{task_id}{ext}"
IntToStr(n) ==
    IF n < 0 THEN << "-" >> \o IntToStr(0 - n)
    ELSE IF n < 10 THEN << Digit(n) >>
    ELSE IntToStr(n \div 10) \o << Digit(n % 10) >>

\* os.path.basename
Basename(path) == path.name

\* os.path.splitext of a file name: the extension starts at the last dot,
\* unless only dots precede it
SplitExt(name) ==
    LET dots == { i \in 1 .. Len(name) : name[i] = "." }
        lastdot == CHOOSE i \in dots : \A j \in dots : j <= i
    IN  IF dots = {} \/ \A j \in 1 .. (lastdot - 1) : name[j] = "."
          THEN << name, <<>> >>
          ELSE << SubSeq(name, 1, lastdot - 1),
                  SubSeq(name, lastdot, Len(name)) >>

\* self.upload_dir
UploadDir == "uploads"

\* "if task_id:" of an optional integer
Truthy(task_id) == task_id # None /\ task_id # Some(0)

\* os.path.join(self.upload_dir, unique_filename)
Destination(source_path, task_id, timestamp) ==
    [dir |-> UploadDir,
     name |-> SplitExt(Basename(source_path))[1] \o << "_" >>
              \o (IF Truthy(task_id)
                    THEN IntToStr(CHOOSE n \in task_id : TRUE)
                    ELSE timestamp)
              \o SplitExt(Basename(source_path))[2]]

\* the files with path holding content
Put(files, path, content) ==
    [p \in DOMAIN files \cup {path} |->
        IF p = path THEN content ELSE files[p]]

\* what copy2 may do: copy, or raise having written nothing or a part
CopyOutcomes == { "ok", "error", "error_partial" }

\* upload_file with shutil.move in the place of shutil.copy2
UploadFile_move(files, source_path, task_id, timestamp, copy) ==
    IF source_path = NoPath \/ source_path \notin DOMAIN files
      THEN [fs |-> files, ret |-> NoPath, raised |-> FALSE]
      ELSE [fs |-> [p \in (DOMAIN files \ {source_path})
                        \cup {Destination(source_path, task_id, timestamp)} |->
                      IF p = Destination(source_path, task_id, timestamp)
                        THEN files[source_path] ELSE files[p]],
            ret |-> Destination(source_path, task_id, timestamp),
            raised |-> FALSE]

\* upload_file without the test of the source and without try/except: the
\* exception of copy2 leaves the method
UploadFile_unchecked(files, source_path, task_id, timestamp, copy) ==
    IF source_path = NoPath \/ source_path \notin DOMAIN files
      THEN [fs |-> files, ret |-> NoPath, raised |-> TRUE]
      ELSE [fs |-> Put(files, Destination(source_path, task_id, timestamp),
                       files[source_path]),
            ret |-> Destination(source_path, task_id, timestamp),
            raised |-> FALSE]

\* upload_file(source_path, task_id): the files after the call, the path
\* returned, and whether an exception left the method
UploadFile(files, source_path, task_id, timestamp, copy) ==
    IF source_path = NoPath \/ source_path \notin DOMAIN files
      THEN [fs |-> files, ret |-> NoPath, raised |-> FALSE]
      ELSE CASE copy = "ok" ->
                  [fs |-> Put(files,
                              Destination(source_path, task_id, timestamp),
                              files[source_path]),
                   ret |-> Destination(source_path, task_id, timestamp),
                   raised |-> FALSE]
             [] copy = "error" ->
                  [fs |-> files, ret |-> NoPath, raised |-> FALSE]
             [] copy = "error_partial" ->
                  [fs |-> Put(files,
                              Destination(source_path, task_id, timestamp),
                              "partial"),
                   ret |-> NoPath, raised |-> FALSE]

\* a client's call of upload_file
upload_file(source_path, task_id, timestamp, copy) ==
    /\ fs' = UploadFile(fs, source_path, task_id, timestamp, copy).fs
    /\ last' = [op |-> "upload_file", source |-> source_path,
                task_id |-> task_id, timestamp |-> timestamp, copy |-> copy,
                ret |-> UploadFile(fs, source_path, task_id, timestamp,
                                   copy).ret,
                raised |-> UploadFile(fs, source_path, task_id, timestamp,
                                      copy).raised]
    /\ UNCHANGED <<conn, db, disk, faults>>

(***************************************************************************)
(* The GUI: TaskDialog and the handlers of WeeklyPlannerApp.  A form is    *)
(* what the user did in the dialog: the button pressed, the texts typed,   *)
(* the time chosen, and the use made of "Browse...".                       *)
(***************************************************************************)
\* the text of file_path_label when no file is shown
NoFileLabel == << "No file selected." >>

\* _select_file: self.file_to_upload_path, when the attribute exists
FileToUpload(form) ==
    IF form.browse = "picked" THEN form.picked ELSE NoPath

\* the text of file_path_label when the dialog closes
FileLabel(form, original_file_path) ==
    CASE form.browse = "picked" /\ form.picked # NoPath ->
            Basename(form.picked)
      [] form.browse \in {"picked", "cancelled"} -> NoFileLabel
      [] OTHER -> IF original_file_path # NoPath
                    THEN Basename(original_file_path) ELSE NoFileLabel

\* get_task_data without .strip() on the name
GetTaskData_nostrip(form, original_file_path) ==
    [name |-> form.name,
     description |-> Strip(form.description),
     time |-> ToHHmm(form.time),
     location |-> Strip(form.location),
     file_path |-> IF form.browse # "untouched" /\ FileToUpload(form) # NoPath
                     THEN FileToUpload(form) ELSE original_file_path]

\* TaskDialog.get_task_data
GetTaskData(form, original_file_path) ==
    [name |-> Strip(form.name),
     description |-> Strip(form.description),
     time |-> ToHHmm(form.time),
     location |-> Strip(form.location),
     file_path |-> IF form.browse # "untouched" /\ FileToUpload(form) # NoPath
                     THEN FileToUpload(form) ELSE original_file_path]

\* the "if not name:" test left out
NameMissing_never(name) == FALSE

\* "if not name:"
NameMissing(name) == name = <<>>

\* what a handler did: the DataManager and the files after it, the message
\* boxes shown and the DataManager methods called, in order
Done(dm, files, shown, calls) ==
    [dm |-> dm, fs |-> files, shown |-> shown, calls |-> calls]

\* _open_add_task_dialog(date_str)
OpenAddTaskDialog(dm, files, date_str, form, timestamp, copy1, copy2, f1, f2) ==
    LET data == GetTaskData(form, NoPath)
        source == data.file_path
        up1 == IF source # NoPath
                 THEN UploadFile(files, source, None, timestamp, copy1)
                 ELSE [fs |-> files, ret |-> NoPath]
        calls1 == IF source # NoPath THEN << "upload_file" >> ELSE <<>>
        added == AddTask(dm, date_str, [data EXCEPT !.file_path = up1.ret], f1)
        up2 == UploadFile(up1.fs, source, added.ret, timestamp, copy2)
        updated == UpdateTaskCall(added.dm, CHOOSE n \in added.ret : TRUE,
                                  [data EXCEPT !.file_path = up2.ret], f2)
    IN  IF ~form.accepted THEN Done(dm, files, <<>>, <<>>)
        ELSE IF NameMissing(data.name)
          THEN Done(dm, files, << "warning" >>, <<>>)
        ELSE IF added.ret = None
          THEN Done(added.dm, up1.fs, << "critical" >>,
                    calls1 \o << "add_task" >>)
        ELSE IF source = NoPath
          THEN Done(added.dm, up1.fs, <<>>,
                    << "add_task", "get_tasks_for_week" >>)
        ELSE IF up2.ret # up1.ret
          THEN Done(updated, up2.fs, << "information" >>,
                    << "upload_file", "add_task", "upload_file",
                       "update_task", "get_tasks_for_week" >>)
        ELSE Done(added.dm, up2.fs, <<>>,
                  << "upload_file", "add_task", "upload_file",
                     "get_tasks_for_week" >>)

\* _open_edit_task_dialog(task_id, current_task_data)
OpenEditTaskDialog(dm, files, task_id, current_task_data, form, ts, copy, fault) ==
    LET data == GetTaskData(form, current_task_data.file_path)
        picked == form.browse # "untouched" /\ FileToUpload(form) # NoPath
        up == IF picked
                THEN UploadFile(files, FileToUpload(form), Some(task_id),
                                ts, copy)
                ELSE [fs |-> files, ret |-> NoPath]
        final_file_path ==
            IF picked THEN up.ret
            ELSE IF /\ FileLabel(form, current_task_data.file_path)
                          = NoFileLabel
                    /\ current_task_data.file_path # NoPath
              THEN NoPath
            ELSE current_task_data.file_path
    IN  IF ~form.accepted THEN Done(dm, files, <<>>, <<>>)
        ELSE IF NameMissing(data.name)
          THEN Done(dm, files, << "warning" >>, <<>>)
        ELSE Done(UpdateTaskCall(dm, task_id,
                                 [data EXCEPT !.file_path = final_file_path],
                                 fault),
                  up.fs, <<>>,
                  (IF picked THEN << "upload_file" >> ELSE <<>>)
                     \o << "update_task", "get_tasks_for_week" >>)

\* the user presses "Add New Task" of a day and closes the dialog
open_add_task_dialog(date_str, form, timestamp, copy1, copy2, f1, f2) ==
    LET done == OpenAddTaskDialog(Self, fs, date_str, form, timestamp,
                                  copy1, copy2, f1, f2)
    IN  /\ f1 = "none" \/ faults < MaxFaults
        /\ f2 = "none" \/ faults + (IF f1 = "none" THEN 0 ELSE 1) < MaxFaults
        /\ Unavailable(conn) \/ db.task_seq < MaxTasks
        /\ Becomes(done.dm)
        /\ fs' = done.fs
        /\ faults' = faults + (IF f1 = "none" THEN 0 ELSE 1)
                            + (IF f2 = "none" THEN 0 ELSE 1)
        /\ last' = [op |-> "open_add_task_dialog", date |-> date_str,
                    form |-> form, shown |-> done.shown,
                    calls |-> done.calls, raised |-> FALSE]

\* the user presses the edit button of a displayed task and closes the
\* dialog
open_edit_task_dialog(current_task_data, form, timestamp, copy, fault) ==
    LET done == OpenEditTaskDialog(Self, fs, current_task_data.id,
                                   current_task_data, form, timestamp,
                                   copy, fault)
    IN  /\ FaultAllowed(fault)
        /\ current_task_data \in db.tasks
        /\ Becomes(done.dm)
        /\ fs' = done.fs
        /\ faults' = CountFault(fault)
        /\ last' = [op |-> "open_edit_task_dialog",
                    id |-> current_task_data.id, form |-> form,
                    shown |-> done.shown, calls |-> done.calls,
                    raised |-> FALSE]

\* a Python int, as a value that can be compared with an enum member
PyInt(n) == [type |-> "int", value |-> n]

\* Qt.CheckState.Unchecked, a member of a Python enum.Enum
CheckStateUnchecked == [type |-> "Qt.CheckState", value |-> 0]

\* Qt.CheckState.Checked, a member of a Python enum.Enum
CheckStateChecked == [type |-> "Qt.CheckState", value |-> 2]

\* QCheckBox.stateChanged(int): the argument the signal carries
StateChanged(checked) ==
    IF checked THEN PyInt(CheckStateChecked.value)
    ELSE PyInt(CheckStateUnchecked.value)

\* Python ==, with the int converted to the enum before it is compared
PyEq_converted(a, b) == a.value = b.value

\* Python == of an int and a member of an enum.Enum: values of different
\* types are not equal, whatever the member's value
PyEq(a, b) == a.type = b.type /\ a.value = b.value

\* _toggle_task_completion(task_id, is_completed)
ToggleTaskCompletion(dm, files, task_id, is_completed, fault) ==
    Done(UpdateTaskStatusCall(dm, task_id, is_completed, fault), files, <<>>,
         << "update_task_status", "get_tasks_for_week" >>)

\* the slot connected to checkbox.stateChanged:
\* lambda state, id=task_id: self._toggle_task_completion(id, state == Qt.CheckState.Checked)
OnStateChanged(dm, files, task_id, state, fault) ==
    ToggleTaskCompletion(dm, files, task_id, PyEq(state, CheckStateChecked),
                         fault)

\* _delete_task without the test of the clicked button
DeleteTaskConfirmed_noask(dm, files, task_id, clicked, fault) ==
    Done(DeleteTaskCall(dm, task_id, fault), files, << "confirm" >>,
         << "delete_task", "get_tasks_for_week" >>)

\* _delete_task(task_id); clicked is the button the confirmation box was
\* closed with ("yes", "no", or "no" standing in for a dismissed box, which
\* Qt reports as its escape button)
DeleteTaskConfirmed(dm, files, task_id, clicked, fault) ==
    IF clicked = "yes"
      THEN Done(DeleteTaskCall(dm, task_id, fault), files, << "confirm" >>,
                << "delete_task", "get_tasks_for_week" >>)
      ELSE Done(dm, files, << "confirm" >>, <<>>)

\* what the user can do with the confirmation box
Answers == { "yes", "no", "dismissed" }

\* msg_box.clickedButton() after msg_box.exec(): the No button is the box's
\* escape button, so a dismissed box reports it
ClickedButton(answer) == IF answer = "yes" THEN "yes" ELSE "no"

\* the user clicks the checkbox of a displayed task
toggle_task_completion(task_data, fault) ==
    LET checked == ~IntToBool(task_data.is_completed)
        done == OnStateChanged(Self, fs, task_data.id, StateChanged(checked),
                               fault)
    IN  /\ Injected(fault)
        /\ task_data \in db.tasks
        /\ Becomes(done.dm)
        /\ fs' = done.fs
        /\ last' = [op |-> "toggle_task_completion", id |-> task_data.id,
                    checked |-> checked,
                    is_completed |-> PyEq(StateChanged(checked),
                                          CheckStateChecked),
                    shown |-> done.shown, calls |-> done.calls,
                    raised |-> FALSE]

\* the user presses the delete button of a displayed task and answers the
\* confirmation box
delete_task_button(task_data, answer, fault) ==
    LET done == DeleteTaskConfirmed(Self, fs, task_data.id,
                                    ClickedButton(answer), fault)
    IN  /\ Injected(fault)
        /\ answer # "yes" => fault = "none"
        /\ task_data \in db.tasks
        /\ Becomes(done.dm)
        /\ fs' = done.fs
        /\ last' = [op |-> "delete_task_button", id |-> task_data.id,
                    answer |-> answer, shown |-> done.shown,
                    calls |-> done.calls, raised |-> FALSE]

(***************************************************************************)
(* Construction: _connect() either opens the database or, on              *)
(* sqlite3.Error, leaves conn = None.                                      *)
(***************************************************************************)
Init ==
    /\ conn \in {"open", "none"}
    /\ db = EmptyDb
    /\ disk = EmptyDb
    /\ fs = UserFiles
    /\ last = [op |-> "__init__", raised |-> FALSE]
    /\ faults = 0

(***************************************************************************)
(* Spec: a client calling the task operations of the storage layer         *)
(* directly, in an environment where no call hits a low-level sqlite3      *)
(* error.                                                                  *)
(***************************************************************************)
Next ==
    \/ \E date \in Dates, a \in TaskArgs : add_task(date, a, "none")
    \/ \E w \in Weeks : get_tasks_for_week(w[1], w[2], "none")
    \/ \E i \in TaskIds, c \in BOOLEAN : update_task_status(i, c, "none")
    \/ \E i \in TaskIds, a \in TaskArgs : update_task(i, a, "none")
    \/ \E i \in TaskIds : delete_task(i, "none")
    \/ close

Spec == Init /\ [][Next]_vars

(***************************************************************************)
(* SpecDates: the task operations, with tasks of both dates.               *)
(***************************************************************************)
StoreArgs == { a \in TaskArgs : a.name # <<>> }

NextDates ==
    \/ \E date \in Dates, a \in StoreArgs : add_task(date, a, "none")
    \/ \E w \in Weeks : get_tasks_for_week(w[1], w[2], "none")
    \/ \E i \in TaskIds, c \in BOOLEAN : update_task_status(i, c, "none")
    \/ \E i \in TaskIds, a \in StoreArgs : update_task(i, a, "none")
    \/ \E i \in TaskIds : delete_task(i, "none")

SpecDates == Init /\ [][NextDates]_vars

(***************************************************************************)
(* SpecStore: a client calling every operation of the storage layer, the   *)
(* schedule operations included, with tasks of one date.                   *)
(***************************************************************************)
StoreDates == { <<1, 0>> }

NextStore ==
    \/ \E date \in StoreDates, a \in StoreArgs : add_task(date, a, "none")
    \/ \E w \in Weeks : get_tasks_for_week(w[1], w[2], "none")
    \/ \E i \in TaskIds, c \in BOOLEAN : update_task_status(i, c, "none")
    \/ \E i \in TaskIds, a \in StoreArgs : update_task(i, a, "none")
    \/ \E i \in TaskIds : delete_task(i, "none")
    \/ \E a \in ScheduleArgs : add_schedule_entry(a, "none")
    \/ \E day \in DaysOfWeek : get_schedule_for_day(day, "none")
    \/ close

SpecStore == Init /\ [][NextStore]_vars

(***************************************************************************)
(* SpecNames: add_task and update_task called directly, with an empty or   *)
(* a non-empty name, and through the add and edit dialogs of the GUI.      *)
(***************************************************************************)
NameArgs == { a \in TaskArgs : a.file_path = NoPath }

\* what the user does in a dialog
GuiForms ==
    { [accepted |-> TRUE, name |-> << " " >>, description |-> <<>>,
       time |-> [h |-> 9, m |-> 30], location |-> <<>>,
       browse |-> "picked", picked |-> UserFile],
      [accepted |-> TRUE, name |-> << " ", "a", " " >>,
       description |-> << "d", " " >>, time |-> [h |-> 9, m |-> 30],
       location |-> <<>>, browse |-> "picked", picked |-> UserFile],
      [accepted |-> TRUE, name |-> << "b" >>, description |-> <<>>,
       time |-> [h |-> 8, m |-> 0], location |-> << "l" >>,
       browse |-> "cancelled", picked |-> NoPath],
      [accepted |-> FALSE, name |-> << "b" >>, description |-> <<>>,
       time |-> [h |-> 8, m |-> 0], location |-> <<>>,
       browse |-> "untouched", picked |-> NoPath] }

\* the texts datetime.now().strftime("%Y%m%d%H%M%S") gives
Timestamps == { << "2", "0", "2", "6" >> }

NextNames ==
    \/ \E date \in StoreDates, a \in NameArgs, fault \in Faults :
          add_task(date, a, fault)
    \/ \E i \in TaskIds, a \in NameArgs : update_task(i, a, "none")
    \/ \E date \in StoreDates, form \in GuiForms, ts \in Timestamps :
          open_add_task_dialog(date, form, ts, "ok", "ok", "none", "none")
    \/ \E row \in db.tasks, form \in GuiForms, ts \in Timestamps :
          open_edit_task_dialog(row, form, ts, "ok", "none")

SpecNames == Init /\ [][NextNames]_vars

(***************************************************************************)
(* SpecUpload: a client calling upload_file, with and without a task id,   *)
(* on files that exist, on a path where none does, and on a file uploaded  *)
(* before.                                                                 *)
(***************************************************************************)
\* the task_id arguments: none, and integers
UploadIds == { None, Some(0), Some(1) }

\* the source_path arguments
UploadSources ==
    { NoPath, UserFile, DotFile, MissingFile,
      [dir |-> UploadDir, name |-> << "a", "_", "1", ".", "p" >>] }

NextUpload ==
    \E source \in UploadSources, id \in UploadIds, ts \in Timestamps,
       copy \in CopyOutcomes : upload_file(source, id, ts, copy)

SpecUpload == Init /\ [][NextUpload]_vars

(***************************************************************************)
(* SpecAttach: the user adding and editing tasks through the dialogs,      *)
(* with and without an attachment, where each copy may succeed or fail.    *)
(***************************************************************************)
NextAttach ==
    \/ \E date \in StoreDates, form \in GuiForms, ts \in Timestamps,
          copy1 \in CopyOutcomes, copy2 \in CopyOutcomes :
          open_add_task_dialog(date, form, ts, copy1, copy2, "none", "none")
    \/ \E row \in db.tasks, form \in GuiForms, ts \in Timestamps,
          copy \in CopyOutcomes :
          open_edit_task_dialog(row, form, ts, copy, "none")

SpecAttach == Init /\ [][NextAttach]_vars

(***************************************************************************)
(* SpecGui: the user working in the window (add and edit dialogs, the      *)
(* checkbox and the delete button of a task), beside a client's direct     *)
(* update_task_status and delete_task.                                     *)
(***************************************************************************)
NextGui ==
    \/ \E date \in StoreDates, form \in GuiForms, ts \in Timestamps :
          open_add_task_dialog(date, form, ts, "ok", "ok", "none", "none")
    \/ \E row \in db.tasks, form \in GuiForms, ts \in Timestamps :
          open_edit_task_dialog(row, form, ts, "ok", "none")
    \/ \E row \in db.tasks : toggle_task_completion(row, "none")
    \/ \E row \in db.tasks, answer \in Answers :
          delete_task_button(row, answer, "none")
    \/ \E i \in TaskIds, c \in BOOLEAN : update_task_status(i, c, "none")
    \/ \E i \in TaskIds : delete_task(i, "none")

SpecGui == Init /\ [][NextGui]_vars

(***************************************************************************)
(* SpecSchedule: a client adding schedule entries of two days, with start  *)
(* times in either order and one that ends before it starts, and reading   *)
(* them by day, beside task operations and close.                          *)
(***************************************************************************)
ScheduleEntries ==
    { [day_of_week |-> "Monday", start_time |-> <<0, 9>>,
       end_time |-> <<0, 8>>, type |-> "Work", description |-> <<>>],
      [day_of_week |-> "Monday", start_time |-> <<0, 8>>,
       end_time |-> <<1, 0>>, type |-> "Gym", description |-> << "d" >>],
      [day_of_week |-> "Tuesday", start_time |-> <<0, 9>>,
       end_time |-> <<1, 0>>, type |-> "Work", description |-> <<>>] }

\* the days a caller reads: the days entries are stored under, and another
ScheduleDays == DaysOfWeek \cup { "Sunday" }

NextSchedule ==
    \/ \E a \in ScheduleEntries : add_schedule_entry(a, "none")
    \/ \E day \in ScheduleDays : get_schedule_for_day(day, "none")
    \/ \E date \in StoreDates, a \in NameArgs : add_task(date, a, "none")
    \/ \E i \in TaskIds, c \in BOOLEAN : update_task_status(i, c, "none")
    \/ \E i \in TaskIds : delete_task(i, "none")
    \/ close

SpecSchedule == Init /\ [][NextSchedule]_vars

(***************************************************************************)
(* SpecFault: a client calling the task operations while execute() or      *)
(* commit() may raise sqlite3.Error, up to MaxFaults times.                *)
(***************************************************************************)
NextFault ==
    \/ \E date \in StoreDates, a \in StoreArgs, fault \in Faults :
          add_task(date, a, fault)
    \/ \E w \in Weeks, fault \in Faults : get_tasks_for_week(w[1], w[2], fault)
    \/ \E i \in TaskIds, c \in BOOLEAN, fault \in Faults :
          update_task_status(i, c, fault)
    \/ \E i \in TaskIds, a \in StoreArgs, fault \in Faults :
          update_task(i, a, fault)
    \/ \E i \in TaskIds, fault \in Faults : delete_task(i, fault)
    \/ close

SpecFault == Init /\ [][NextFault]_vars

(***************************************************************************)
(* Properties.                                                             *)
(***************************************************************************)
\* lexical order of two strings, stated by the first position they differ at
LexLeq(a, b) ==
    \/ Len(a) <= Len(b) /\ SubSeq(b, 1, Len(a)) = a
    \/ \E i \in 1 .. Len(a) :
          /\ i <= Len(b)
          /\ SubSeq(a, 1, i - 1) = SubSeq(b, 1, i - 1)
          /\ a[i] < b[i]

\* the elements of a sequence
Range(sq) == { sq[i] : i \in DOMAIN sq }

\* the (key, task) pairs a returned mapping lists
Listed(res) ==
    UNION { { <<dt, res[dt][k]>> : k \in DOMAIN res[dt] } : dt \in DOMAIN res }

\* the ids of the stored tasks
StoredIds(d) == { r.id : r \in d.tasks }

\* the stored task with a given id
TaskRow(d, i) == CHOOSE r \in d.tasks : r.id = i

\* C1: after add_task(d, n, ...) with a non-empty name returned id i, every
\* get_tasks_for_week(s, e) with s <= d <= e returns under key d exactly one
\* task with id i; its name, description, time, location and file_path are
\* the arguments and its is_completed is false.
C1_AddThenQuery ==
    (last.op = "add_task" /\ last.ret # None /\ last.args.name # <<>>) =>
        \A s \in QueryDates, e \in QueryDates :
            (LexLeq(s, last.date) /\ LexLeq(last.date, e)) =>
                \A res \in GetTasksForWeek(Self, s, e, "none") :
                    /\ last.date \in DOMAIN res
                    /\ Cardinality({ k \in DOMAIN res[last.date] :
                                      Some(res[last.date][k].id) = last.ret }) = 1
                    /\ \A pr \in Listed(res) :
                          Some(pr[2].id) = last.ret =>
                              /\ pr[1] = last.date
                              /\ pr[2].name = last.args.name
                              /\ pr[2].description = last.args.description
                              /\ pr[2].time = last.args.time
                              /\ pr[2].location = last.args.location
                              /\ pr[2].file_path = last.args.file_path
                              /\ ~IntToBool(pr[2].is_completed)

\* C1 witness: a second task was added, with a non-empty name, to a date
\* that already holds a task
C1_Witness ==
    /\ last.op = "add_task" /\ last.ret = Some(2) /\ last.args.name # <<>>
    /\ last.args.description # <<>>
    /\ \E r \in db.tasks : r.id = 1 /\ r.date = last.date

\* C2: every mapping get_tasks_for_week(start, end) returns lists under key d
\* only tasks of date d, with start <= d <= end, and each list is in
\* ascending lexical order of time, tasks with an empty time first.
C2_RangeAndOrder ==
    \A s \in QueryDates, e \in QueryDates :
        \A res \in GetTasksForWeek(Self, s, e, "none") :
            /\ \A pr \in Listed(res) :
                  /\ pr[2].date = pr[1]
                  /\ LexLeq(s, pr[1]) /\ LexLeq(pr[1], e)
            /\ \A dt \in DOMAIN res : \A k, l \in DOMAIN res[dt] :
                  k < l =>
                      /\ LexLeq(res[dt][k].time, res[dt][l].time)
                      /\ res[dt][l].time = <<>> => res[dt][k].time = <<>>

\* C2 witness: a date holds a task with an empty time and one with a
\* populated time that was added first, another task lies outside a queried
\* range, and the query has returned
C2_Witness ==
    /\ last.op = "get_tasks_for_week" /\ last.start = <<1, 2>>
    /\ \E r1, r2 \in db.tasks :
          /\ r1.date = <<1, 5>> /\ r2.date = <<1, 5>>
          /\ r1.id < r2.id /\ r1.time = <<2>> /\ r2.time = <<1, 2>>
    /\ <<1, 5>> \in DOMAIN last.ret /\ Len(last.ret[<<1, 5>>]) = 2

\* C3: update_task_status(i, c) on an existing id i sets is_completed of
\* task i to c, leaves the other fields of task i, every other task and every
\* schedule entry unchanged.
C3_StatusOnly ==
    [][ (/\ last'.op = "update_task_status"
         /\ conn = "open"
         /\ last'.id \in StoredIds(db)) =>
            /\ last'.id \in StoredIds(db')
            /\ Cardinality({ r \in db'.tasks : r.id = last'.id }) = 1
            /\ IntToBool(TaskRow(db', last'.id).is_completed)
                  = last'.is_completed
            /\ [TaskRow(db', last'.id) EXCEPT !.is_completed = 0]
                  = [TaskRow(db, last'.id) EXCEPT !.is_completed = 0]
            /\ { r \in db'.tasks : r.id # last'.id }
                  = { r \in db.tasks : r.id # last'.id }
            /\ db'.schedule = db.schedule ]_vars

\* C3 witness: a task was marked completed while another task and a schedule
\* entry are stored
C3_Witness ==
    /\ last.op = "update_task_status" /\ last.is_completed /\ conn = "open"
    /\ \E r \in db.tasks : r.id = last.id /\ r.is_completed = 1
    /\ \E r \in db.tasks : r.id # last.id /\ r.is_completed = 0
    /\ db.schedule # {}

\* C4: update_task(i, name, description, time, location, file_path) on an
\* existing id i overwrites exactly those five fields of task i with the
\* arguments, leaves its id, date and is_completed, and every other task,
\* unchanged.
C4_UpdateOverwrites ==
    [][ (/\ last'.op = "update_task"
         /\ conn = "open"
         /\ last'.id \in StoredIds(db)) =>
            /\ Cardinality({ r \in db'.tasks : r.id = last'.id }) = 1
            /\ TaskRow(db', last'.id).name = last'.args.name
            /\ TaskRow(db', last'.id).description = last'.args.description
            /\ TaskRow(db', last'.id).time = last'.args.time
            /\ TaskRow(db', last'.id).location = last'.args.location
            /\ TaskRow(db', last'.id).file_path = last'.args.file_path
            /\ TaskRow(db', last'.id).date = TaskRow(db, last'.id).date
            /\ TaskRow(db', last'.id).is_completed
                  = TaskRow(db, last'.id).is_completed
            /\ { r \in db'.tasks : r.id # last'.id }
                  = { r \in db.tasks : r.id # last'.id } ]_vars

\* C4 witness: a completed task had its five fields overwritten while another
\* task is stored
C4_Witness ==
    /\ last.op = "update_task" /\ conn = "open"
    /\ last.args.location = <<"l">>
    /\ \E r \in db.tasks :
          r.id = last.id /\ r.is_completed = 1 /\ r.name = last.args.name
    /\ \E r \in db.tasks : r.id # last.id /\ r.name # last.args.name

\* a returned mapping without the task of id i: the task is dropped from its
\* list, and a key whose list becomes empty is dropped
WithoutTask(res, i) ==
    [dt \in { d \in DOMAIN res : \E k \in DOMAIN res[d] : res[d][k].id # i } |->
        SelectSeq(res[dt], LAMBDA r : r.id # i)]

\* C5: after delete_task(i) on an available store, no get_tasks_for_week
\* returns a task with id i, and over every range the tasks with another id
\* are returned as before the delete.
C5_DeleteRemovesOnlyThat ==
    [][ (last'.op = "delete_task" /\ conn = "open") =>
            \A w \in QueryRanges :
                /\ \A res \in GetTasksForWeek(Self, w[1], w[2], "none")' :
                      \A pr \in Listed(res) : pr[2].id # last'.id
                /\ GetTasksForWeek(Self, w[1], w[2], "none")'
                      = { WithoutTask(res, last'.id) :
                            res \in GetTasksForWeek(Self, w[1], w[2], "none") }
       ]_vars

\* C5 witness: a stored task was deleted while another one stays
C5_Witness ==
    /\ last.op = "delete_task" /\ conn = "open"
    /\ db.task_seq = 2 /\ last.id = 1
    /\ StoredIds(db) = {2}

\* C6: update_task_status, update_task and delete_task with an id that is
\* not the id of a stored task leave the tasks table unchanged and raise
\* nothing.
C6_UnknownIdNoOp ==
    [][ (/\ last'.op \in {"update_task_status", "update_task", "delete_task"}
         /\ last'.id \notin StoredIds(db)) =>
            /\ db'.tasks = db.tasks
            /\ ~last'.raised ]_vars

\* C6 witness: update_task was called with the id of a deleted task while
\* another task is stored
C6_Witness ==
    /\ last.op = "update_task" /\ conn = "open"
    /\ last.id = 1 /\ db.task_seq = 2 /\ StoredIds(db) = {2}
    /\ \E r \in db.tasks : r.name # last.args.name

\* C7: while the connection is unavailable every storage operation changes
\* nothing, raises nothing and returns its sentinel (None, an empty mapping,
\* an empty list), and the connection stays unavailable.
C7_UnavailableNoOps ==
    [][ conn = "none" =>
            /\ conn' = "none"
            /\ db' = db /\ disk' = disk
            /\ ~last'.raised
            /\ last'.op \in {"add_task", "add_schedule_entry"} =>
                  last'.ret = None
            /\ last'.op \in {"get_tasks_for_week", "get_schedule_for_day"} =>
                  last'.ret = <<>> ]_vars

\* C7 witness: add_task was called after close() on a store that holds a
\* task and a schedule entry
C7_Witness ==
    /\ conn = "none" /\ last.op = "add_task" /\ last.ret = None
    /\ disk.tasks # {} /\ disk.schedule # {}

\* C8: close() leaves conn = None, raises nothing and alters no persisted
\* task or schedule entry; a close() after the first changes nothing.
C8_CloseIdempotent ==
    [][ last'.op = "close" =>
            /\ conn' = "none"
            /\ ~last'.raised
            /\ disk' = disk
            /\ conn = "none" => (db' = db /\ ~last'.printed) ]_vars

\* C8 witness: close() was called on a DataManager whose connection was
\* already released, with a task and a schedule entry persisted
C8_Witness ==
    /\ last.op = "close" /\ ~last.printed /\ conn = "none"
    /\ disk.tasks # {} /\ disk.schedule # {}

\* C10: a stored task keeps its date through every call, a task added with
\* date d is stored with date d, and a get_tasks_for_week call lists a task
\* only under the key that is its date.
C10_DateImmutable ==
    [][ /\ \A r \in db.tasks : \A r2 \in db'.tasks :
              r2.id = r.id => r2.date = r.date
        /\ (last'.op = "add_task" /\ last'.ret # None) =>
              \A r2 \in db'.tasks :
                  Some(r2.id) = last'.ret => r2.date = last'.date
        /\ last'.op = "get_tasks_for_week" =>
              \A pr \in Listed(last'.ret) :
                  \A r \in db.tasks : r.id = pr[2].id => pr[1] = r.date
      ]_vars

\* C10 witness: a task stored under one date was updated with a time, after
\* another task was added under the other date and one was deleted
C10_Witness ==
    /\ last.op = "update_task" /\ conn = "open" /\ last.args.time # <<>>
    /\ \E r \in db.tasks :
          r.id = last.id /\ r.date = <<1, 5>> /\ r.is_completed = 1
    /\ Cardinality(db.tasks) = 1 /\ db.task_seq = 2

\* C9 as claimed: every persisted task has a non-empty name.
C9_NameNeverEmpty == \A r \in disk.tasks : r.name # <<>>

\* no task of d has an empty name
AllNamed(d) == \A r \in d.tasks : r.name # <<>>

\* C9, amended: a task with an empty name comes to be stored only by a
\* direct add_task or update_task call that is given the empty name; the add
\* and edit dialogs of the GUI never store one.
C9_EmptyNameOnlyDirect ==
    [][ (/\ AllNamed(db) /\ AllNamed(disk)
         /\ ~(/\ last'.op \in {"add_task", "update_task"}
              /\ last'.args.name = <<>>)) =>
            AllNamed(db') /\ AllNamed(disk') ]_vars

\* C9 witness: the add dialog stored a task under the name and description
\* typed with blanks around them, trimmed, and every stored name is non-empty
C9_Witness ==
    /\ last.op = "open_add_task_dialog" /\ "add_task" \in Range(last.calls)
    /\ last.form.name = << " ", "a", " " >>
    /\ \E r \in disk.tasks :
          r.id = db.task_seq /\ r.name = << "a" >> /\ r.description = << "d" >>
    /\ AllNamed(disk)

\* the files of the managed upload directory
Managed(files) == { p \in DOMAIN files : p.dir = UploadDir }

\* C11: upload_file with an empty source path, or one at which no file
\* exists, returns the empty path, raises nothing, and leaves every file of
\* the upload directory as it was, creating none.
C11_AbsentSourceNoAction ==
    [][ (/\ last'.op = "upload_file"
         /\ (last'.source = NoPath \/ last'.source \notin DOMAIN fs)) =>
            /\ last'.ret = NoPath
            /\ ~last'.raised
            /\ Managed(fs') = Managed(fs)
            /\ \A p \in Managed(fs) : fs'[p] = fs[p] ]_vars

\* C11 witness: upload_file was called on a path at which no file exists,
\* while the upload directory holds a file
C11_Witness ==
    /\ last.op = "upload_file" /\ last.source = MissingFile
    /\ last.ret = NoPath
    /\ Managed(fs) # {}

\* the name {base}_{tag}{ext} of a source path
TaggedName(source_path, tag) ==
    SplitExt(Basename(source_path))[1] \o << "_" >> \o tag
        \o SplitExt(Basename(source_path))[2]

\* C12: an upload_file that copies an existing source returns the path, in
\* the upload directory, named {base}_{task_id}{ext} whenever a task id is
\* supplied, whatever integer it is, and {base}_{timestamp}{ext} when none
\* is supplied.
C12_IdNaming ==
    [][ (/\ last'.op = "upload_file"
         /\ last'.source \in DOMAIN fs
         /\ last'.ret # NoPath) =>
            /\ last'.ret.dir = UploadDir
            /\ last'.ret.name =
                  IF last'.task_id # None
                    THEN TaggedName(last'.source,
                                    IntToStr(CHOOSE n \in last'.task_id : TRUE))
                    ELSE TaggedName(last'.source, last'.timestamp) ]_vars

\* C13: an upload_file of an existing source leaves the source where it is
\* with the content it had; when the copy succeeds the path returned holds
\* a file with the content of the source, and when the copy fails the empty
\* path is returned.
C13_CopyKeepsSource ==
    [][ (last'.op = "upload_file" /\ last'.source \in DOMAIN fs) =>
            /\ last'.source \in DOMAIN fs'
            /\ fs'[last'.source] = fs[last'.source]
            /\ last'.copy = "ok" =>
                  /\ last'.ret # NoPath
                  /\ last'.ret \in DOMAIN fs'
                  /\ fs'[last'.ret] = fs[last'.source]
            /\ last'.copy # "ok" => last'.ret = NoPath ]_vars

\* C13 witness: a file of the user's was copied under the id of a task, and
\* both files hold its content
C13_Witness ==
    /\ last.op = "upload_file" /\ last.source = UserFile
    /\ last.task_id = Some(1) /\ last.ret # NoPath
    /\ last.ret # UserFile
    /\ fs[last.ret] = "content" /\ fs[UserFile] = "content"

\* the add dialog of the step was accepted with a file picked and add_task
\* returned an id (the one the sequence then stands at)
AddedWithFile ==
    /\ last'.op = "open_add_task_dialog"
    /\ last'.form.accepted
    /\ last'.form.browse = "picked" /\ last'.form.picked # NoPath
    /\ "add_task" \in Range(last'.calls)
    /\ "critical" \notin Range(last'.shown)

\* C14: when the add dialog is accepted with an attachment picked and
\* add_task returns id i, the file_path persisted on task i is the path
\* {base}_{i}{ext} in the upload directory.
C14_IdPathPersisted ==
    [][ AddedWithFile =>
            \E r \in disk'.tasks :
                /\ r.id = db'.task_seq
                /\ r.file_path =
                      [dir |-> UploadDir,
                       name |-> TaggedName(last'.form.picked,
                                           IntToStr(db'.task_seq))] ]_vars

\* C15: the delete button calls delete_task only when the confirmation box
\* was shown and the user chose Yes; when the user chooses No or dismisses
\* the box, no DataManager method is called and the store and the files
\* stay as they were.
C15_DeleteNeedsYes ==
    [][ last'.op = "delete_task_button" =>
            /\ "delete_task" \in Range(last'.calls) =>
                  /\ "confirm" \in Range(last'.shown)
                  /\ last'.answer = "yes"
            /\ last'.answer # "yes" =>
                  /\ last'.calls = <<>>
                  /\ db' = db /\ disk' = disk /\ conn' = conn
                  /\ fs' = fs ]_vars

\* C15 witness: the user dismissed the confirmation box of a stored task,
\* which is still stored
C15_Witness ==
    /\ last.op = "delete_task_button" /\ last.answer = "dismissed"
    /\ last.shown = << "confirm" >>
    /\ conn = "open"
    /\ last.id \in StoredIds(disk)

\* C16: when the add or the edit dialog is accepted with a name that is
\* empty once trimmed, the handler shows a warning and calls none of
\* add_task, update_task and upload_file; the store and the files of the
\* upload directory stay as they were.
C16_EmptyNameRejected ==
    [][ (/\ last'.op \in {"open_add_task_dialog", "open_edit_task_dialog"}
         /\ last'.form.accepted
         /\ Strip(last'.form.name) = <<>>) =>
            /\ last'.shown = << "warning" >>
            /\ last'.calls = <<>>
            /\ db' = db /\ disk' = disk
            /\ Managed(fs') = Managed(fs)
            /\ \A p \in Managed(fs) : fs'[p] = fs[p] ]_vars

\* C16 witness: the edit dialog of a stored task was accepted with a blank
\* name and a file picked
C16_Witness ==
    /\ last.op = "open_edit_task_dialog"
    /\ last.form.accepted /\ last.form.name = << " " >>
    /\ last.form.browse = "picked"
    /\ last.shown = << "warning" >>
    /\ \E r \in disk.tasks : r.id = last.id /\ r.name # <<>>

\* C17: when the user checks the checkbox of task i, update_task_status(i,
\* true) is called and task i is persisted completed; when the user unchecks
\* it, update_task_status(i, false) is called and task i is persisted not
\* completed.
C17_ToggleMapsState ==
    [][ (last'.op = "toggle_task_completion" /\ conn = "open") =>
            /\ "update_task_status" \in Range(last'.calls)
            /\ last'.is_completed = last'.checked
            /\ \E r \in disk'.tasks :
                  /\ r.id = last'.id
                  /\ IntToBool(r.is_completed) = last'.checked ]_vars

\* C18: delete_task, called directly or by the delete button, leaves every
\* file where it is with the content it had, the file the deleted task
\* points to included.
C18_DeleteKeepsFiles ==
    [][ last'.op \in {"delete_task", "delete_task_button"} =>
            /\ DOMAIN fs' = DOMAIN fs
            /\ \A p \in DOMAIN fs : fs'[p] = fs[p]
            /\ \A r \in db.tasks :
                  (r.id = last'.id /\ r.file_path \in DOMAIN fs) =>
                      /\ r.file_path \in DOMAIN fs'
                      /\ fs'[r.file_path] = fs[r.file_path] ]_vars

\* C18 witness: a task whose attachment was copied under its id has been
\* deleted by a direct call, and the copy is still in the upload directory
C18_Witness ==
    /\ last.op = "delete_task" /\ conn = "open"
    /\ last.id \notin StoredIds(disk)
    /\ [dir |-> UploadDir,
        name |-> TaggedName(UserFile, IntToStr(last.id))] \in DOMAIN fs

\* the list holds the rows of the set, each once
ListsExactly(list, rows) ==
    /\ Range(list) = rows
    /\ Len(list) = Cardinality(rows)

\* the schedule row an add_schedule_entry call with arguments a creates
\* under id i
ScheduleRow(i, a) ==
    [id |-> i, day_of_week |-> a.day_of_week, start_time |-> a.start_time,
     end_time |-> a.end_time, type |-> a.type, description |-> a.description]

\* C19: on an available store, add_schedule_entry stores the entry as given,
\* whatever the order of its start and end time; no other operation changes
\* the stored entries; and get_schedule_for_day(day) returns exactly the
\* stored entries of that day, each once, in ascending lexical order of
\* start_time.
C19_ScheduleByDay ==
    [][ /\ (last'.op = "add_schedule_entry" /\ conn = "open") =>
              /\ last'.ret # None
              /\ \A i \in last'.ret :
                    /\ i \notin { r.id : r \in db.schedule }
                    /\ db'.schedule =
                          db.schedule \cup { ScheduleRow(i, last'.args) }
              /\ disk'.schedule = db'.schedule
        /\ last'.op # "add_schedule_entry" =>
              /\ db'.schedule = db.schedule
              /\ disk'.schedule = disk.schedule
        /\ (last'.op = "get_schedule_for_day" /\ conn = "open") =>
              /\ ListsExactly(last'.ret,
                              { r \in db.schedule :
                                  r.day_of_week = last'.day_of_week })
              /\ \A j \in 1 .. Len(last'.ret), k \in 1 .. Len(last'.ret) :
                    j < k => StrLeq(last'.ret[j].start_time,
                                    last'.ret[k].start_time)
      ]_vars

\* C19 witness: Monday's two entries were returned, the one added second
\* first because it starts earlier, the other one ending before it starts
C19_Witness ==
    /\ last.op = "get_schedule_for_day" /\ last.day_of_week = "Monday"
    /\ Len(last.ret) = 2
    /\ last.ret[1].id = 2 /\ last.ret[1].start_time = <<0, 8>>
    /\ last.ret[2].id = 1 /\ last.ret[2].start_time = <<0, 9>>
    /\ StrLess(last.ret[2].end_time, last.ret[2].start_time)

\* C20: task ids are unique; a successful add_task returns an id greater
\* than every id handed out before (the AUTOINCREMENT sequence stands at the
\* largest of them, never goes back, and bounds every stored id); and an id
\* handed out before that is no longer stored, as after delete_task, is
\* never stored again, so no later query returns it.
C20_IdsNeverReused ==
    [][ /\ \A r1 \in db.tasks, r2 \in db.tasks : r1.id = r2.id => r1 = r2
        /\ \A r \in db.tasks : r.id <= db.task_seq
        /\ db'.task_seq >= db.task_seq
        /\ (last'.op = "add_task" /\ last'.ret # None) =>
              \A i \in last'.ret :
                  /\ i > db.task_seq
                  /\ \A r \in db.tasks : i > r.id
                  /\ db'.task_seq = i
                  /\ i \in StoredIds(db')
        /\ (last'.op = "delete_task" /\ conn = "open") =>
              last'.id \notin StoredIds(db')
        /\ \A i \in 1 .. db.task_seq :
              i \notin StoredIds(db) =>
                  /\ i \notin StoredIds(db')
                  /\ last'.op = "get_tasks_for_week" =>
                        \A pr \in Listed(last'.ret) : pr[2].id # i
      ]_vars

\* C20 witness: after the only task, of id 1, was deleted, add_task returned
\* id 2
C20_Witness ==
    /\ last.op = "add_task" /\ last.ret = Some(2)
    /\ StoredIds(db) = {2}
    /\ db.task_seq = 2

\* the operations that write the tasks table
TaskWrites == { "add_task", "update_task", "update_task_status", "delete_task" }

\* the tasks table d after the write the step's call asks for, made on d
Asked(d) ==
    CASE last'.op = "add_task" -> InsertTask(d, last'.date, last'.args)
      [] last'.op = "update_task" -> UpdateTask(d, last'.id, last'.args)
      [] last'.op = "update_task_status" ->
            UpdateStatus(d, last'.id, last'.is_completed)
      [] last'.op = "delete_task" -> DeleteTask(d, last'.id)

\* C21: a task operation that hits a low-level error, at execute() or at
\* commit(), leaves the persisted rows as they were, and a later operation
\* that succeeds persists its own change and nothing else, so that the rows
\* a query then sees are those the successful operations alone produce.
C21_FailedCallLeavesNoTrace ==
    [][ (conn = "open" /\ last'.op \in TaskWrites) =>
            /\ faults' # faults => disk'.tasks = disk.tasks
            /\ faults' = faults =>
                  /\ disk'.tasks = Asked(disk).tasks
                  /\ db'.tasks = disk'.tasks ]_vars

=====
